---- MODULE Spec2Model ----
(***************************************************************************)
(* ParquetS3DataSet (kedro/contrib/io/parquet/parquet_s3.py): a dataset    *)
(* handle that resolves a filepath and an optional bucket name to a        *)
(* location in an object store, optionally under a version tag, and loads, *)
(* saves and probes a parquet object there.                                *)
(*                                                                         *)
(* Strings are sequences of tokens: "/" is the separator, "s3:" the        *)
(* scheme marker (so "s3://" is <<"s3:", "/", "/">>), every other token a  *)
(* piece of a name.  A path segment is a sequence of name tokens.          *)
(***************************************************************************)
EXTENDS Integers, Sequences, FiniteSets, TLC

VARIABLES insts, files, dirs, clock, heap, minted, saved, last

vars == <<insts, files, dirs, clock, heap, minted, saved, last>>

(***************************************************************************)
(* Bounds of the model.                                                    *)
(***************************************************************************)
MaxLen == 5

MaxClock == 2

MaxSaves == 2

\* The two dataset handles that exist in a run.
Insts == {"A", "B"}

\* The structured batches that are saved.
Data == {1, 2}

\* What follows the optional scheme prefix of the filepaths tried: separators
\* and name pieces.
Alphabet == {"/", "a", "b", "."}

\* bucket_name: none, or a name.
Buckets == {<<>>, <<"b">>}

\* Sequences over S of length 0..n.
SeqsUpTo(S, n) == UNION {[1..k -> S] : k \in 0..n}

(***************************************************************************)
(* String helpers.                                                         *)
(***************************************************************************)
StartsWith(s, p) == Len(s) >= Len(p) /\ SubSeq(s, 1, Len(p)) = p

Drop(s, n) == SubSeq(s, n + 1, Len(s))

RECURSIVE RStripSep(_)
\* str.rstrip("/")
RStripSep(s) ==
    IF s # <<>> /\ s[Len(s)] = "/" THEN RStripSep(SubSeq(s, 1, Len(s) - 1)) ELSE s

RECURSIVE LStripSep(_)
\* str.lstrip("/")
LStripSep(s) ==
    IF s # <<>> /\ s[1] = "/" THEN LStripSep(Drop(s, 1)) ELSE s

RECURSIVE Split(_)
\* str.split("/"): the pieces between separators, empty pieces included.
Split(s) ==
    IF \A i \in 1..Len(s) : s[i] # "/"
    THEN <<s>>
    ELSE LET i == CHOOSE j \in 1..Len(s) :
                      s[j] = "/" /\ \A k \in 1..(j - 1) : s[k] # "/"
         IN  <<SubSeq(s, 1, i - 1)>> \o Split(Drop(s, i))

RECURSIVE Keep(_)
\* pathlib parse_parts: empty pieces and "." pieces are dropped.
Keep(ps) ==
    IF ps = <<>> THEN <<>>
    ELSE IF Head(ps) = <<>> \/ Head(ps) = <<".">>
         THEN Keep(Tail(ps))
         ELSE <<Head(ps)>> \o Keep(Tail(ps))

SchemeSep == <<"s3:", "/", "/">>

Scheme == <<"s3:">>

\* S3FileSystem._strip_protocol: trailing separators go, then one leading
\* "s3://" (or a bare "s3:").
StripProtocol(path) ==
    LET p == RStripSep(path)
    IN  IF StartsWith(p, SchemeSep) THEN Drop(p, 3)
        ELSE IF StartsWith(p, Scheme) THEN Drop(p, 1)
        ELSE p

\* PurePosixPath(s): a root of no, one or exactly two separators (three or more
\* leading separators count as one) and the kept segments.
PurePosixPath(s) ==
    LET lead == Len(s) - Len(LStripSep(s))
    IN  [root |-> IF lead = 0 THEN 0 ELSE IF lead = 2 THEN 2 ELSE 1,
         segs |-> Keep(Split(LStripSep(s)))]

RECURSIVE JoinSep(_)
\* "/".join(segments)
JoinSep(segs) ==
    IF segs = <<>> THEN <<>>
    ELSE IF Len(segs) = 1 THEN Head(segs)
    ELSE Head(segs) \o <<"/">> \o JoinSep(Tail(segs))

\* str(PurePosixPath): the root, then the segments joined by "/"; "." when empty.
PathStr(p) ==
    IF p.root = 0 /\ p.segs = <<>> THEN <<".">>
    ELSE [i \in 1..p.root |-> "/"] \o JoinSep(p.segs)

\* __init__, lines 107-108: bucket_name and the stripped filepath joined by "/"
\* when bucket_name is truthy, the stripped filepath alone otherwise.
ResolvePathBucketLast(filepath, bucket_name) ==
    LET path == StripProtocol(filepath)
    IN  PurePosixPath(IF bucket_name # <<>>
                      THEN path \o <<"/">> \o bucket_name
                      ELSE path)

ResolvePath(filepath, bucket_name) ==
    LET path == StripProtocol(filepath)
    IN  PurePosixPath(IF bucket_name # <<>>
                      THEN bucket_name \o <<"/">> \o path
                      ELSE path)

(***************************************************************************)
(* Versions, keys and the store.                                           *)
(***************************************************************************)
\* A version tag is a pair <<time, tie-breaker>>, compared lexicographically.
NoTag == <<>>

\* Version(load, save); NoVersion is version=None.
NoVersion == [on |-> FALSE, load |-> NoTag, save |-> NoTag]

Version(load, save) == [on |-> TRUE, load |-> load, save |-> save]

\* The tag a caller pins.
PinTag == <<1, 1>>

\* A tag above every tag a save can mint, left by an earlier writer.
LegacyTag == <<MaxClock + 1, 0>>

Versions ==
    {NoVersion} \cup {Version(l, s) : l \in {NoTag, PinTag}, s \in {NoTag, PinTag}}

TagLess(a, b) == a[1] < b[1] \/ (a[1] = b[1] /\ a[2] < b[2])

MaxTag(S) == CHOOSE m \in S : \A x \in S : x = m \/ TagLess(x, m)

\* <location>/<version>/<location basename>; the unversioned key is the
\* location itself.
GetVersionedPath(loc, version) == [loc |-> loc, ver |-> version]

UnversionedPath(loc) == [loc |-> loc, ver |-> NoTag]

NoLoc == [root |-> 3, segs |-> <<>>]

NoKey == [loc |-> NoLoc, ver |-> NoTag]

EmptyStore == [k \in {} |-> 0]

PutReplacingAll(store, key, bytes) == [k \in {key} |-> bytes]

\* pq.write_table(where=key, filesystem=s3): one object is created or overwritten.
Put(store, key, bytes) ==
    [k \in DOMAIN store \cup {key} |-> IF k = key THEN bytes ELSE store[k]]

\* S3FileSystem.isfile / exists / glob of <location>/*/<basename>.
IsFile(store, key) == key \in DOMAIN store

StoreExists(store, ds, key) == key \in DOMAIN store \/ key \in ds

VersionsPresent(store, ds, loc) ==
    {k.ver : k \in {x \in DOMAIN store \cup ds : x.loc = loc /\ x.ver # NoTag}}

(***************************************************************************)
(* Option sets and the codec.                                              *)
(***************************************************************************)
NoArgs == [given |-> FALSE, opts |-> {}]

Args(opts) == [given |-> TRUE, opts |-> opts]

\* {**default, **args}: the override wins per key.
MergeArgs(default, args) ==
    IF args.given
    THEN args.opts \cup {p \in default : \A q \in args.opts : q[1] # p[1]}
    ELSE default

Compression(save_args) ==
    IF \E p \in save_args : p[1] = "compression"
    THEN (CHOOSE p \in save_args : p[1] = "compression")[2]
    ELSE "SNAPPY"

\* pq.write_table(pa.Table.from_pandas(data), **save_args)
Encode(data, save_args) ==
    [payload |-> data, compression |-> Compression(save_args)]

\* pd.read_parquet(s3_file, **load_args)
DecodeEmpty(bytes, load_args) == 0

Decode(bytes, load_args) == bytes.payload

LegacyBytes == [payload |-> 0, compression |-> "SNAPPY"]

(***************************************************************************)
(* The caller's credentials mapping and its copies.  An object holds one   *)
(* value and a reference to a nested mapping (0: none).                    *)
(***************************************************************************)
CallerRef == 1

CredValues == {0, 1}

RECURSIVE DeepValue(_, _)
\* The contents seen through reference a.
DeepValue(h, a) ==
    IF a = 0 THEN <<>> ELSE <<h[a].val>> \o DeepValue(h, h[a].child)

RECURSIVE Chain(_, _)
Chain(h, a) == IF a = 0 THEN <<>> ELSE <<a>> \o Chain(h, h[a].child)

\* deepcopy(credentials) or {}: every object reachable from the argument is
\* copied; None gives a fresh empty mapping (reference 0).
CopyCredentialsShallow(h, credentials) ==
    IF credentials = 0 THEN [heap |-> h, ref |-> 0]
    ELSE [heap |-> Append(h, h[credentials]), ref |-> Len(h) + 1]

CopyCredentials(h, credentials) ==
    IF credentials = 0 THEN [heap |-> h, ref |-> 0]
    ELSE LET c == Chain(h, credentials)
             n == Len(c)
         IN  [heap |-> h \o [i \in 1..n |->
                                [val |-> h[c[i]].val,
                                 child |-> IF i < n THEN Len(h) + i + 1 ELSE 0]],
              ref |-> Len(h) + 1]

(***************************************************************************)
(* Dataset handles.                                                        *)
(***************************************************************************)
NoArgsGiven ==
    [filepath |-> <<>>, bucket_name |-> <<>>, credentials |-> 0,
     load_args |-> NoArgs, save_args |-> NoArgs, version |-> NoVersion]

Unbuilt ==
    [built |-> FALSE, filepath |-> NoLoc, version |-> NoVersion,
     load_args |-> {}, save_args |-> {}, credentials |-> 0, counter |-> 0,
     args |-> NoArgsGiven, given |-> <<>>]

Idle == [op |-> "none", inst |-> "", key |-> NoKey, ok |-> TRUE, val |-> 0,
         flag |-> FALSE]

NoSave == [inst |-> "", key |-> NoKey, data |-> 0]

\* resolve_for_load: the pinned load version, else the greatest version listed
\* under the location; no version listed and none pinned is VersionNotFoundError.
LookupLoadVersion(inst) ==
    IF inst.version.load # NoTag THEN [ok |-> TRUE, ver |-> inst.version.load]
    ELSE LET present == VersionsPresent(files, dirs, inst.filepath)
         IN  IF present = {} THEN [ok |-> FALSE, ver |-> NoTag]
             ELSE [ok |-> TRUE, ver |-> MaxTag(present)]

GetLoadPath(inst) ==
    IF ~inst.version.on THEN [ok |-> TRUE, key |-> UnversionedPath(inst.filepath)]
    ELSE LET lv == LookupLoadVersion(inst)
         IN  IF lv.ok
             THEN [ok |-> TRUE, key |-> GetVersionedPath(inst.filepath, lv.ver)]
             ELSE [ok |-> FALSE, key |-> NoKey]

\* resolve_for_save: the pinned save version verbatim, else a tag minted from the
\* clock with the handle's monotonic counter as tie-breaker.
LookupSaveVersionClockOnly(inst) ==
    IF inst.version.save # NoTag THEN inst.version.save ELSE <<clock, 1>>

LookupSaveVersion(inst) ==
    IF inst.version.save # NoTag THEN inst.version.save
    ELSE <<clock, inst.counter + 1>>

GetSavePath(inst) ==
    IF ~inst.version.on THEN UnversionedPath(inst.filepath)
    ELSE GetVersionedPath(inst.filepath, LookupSaveVersion(inst))

Mints(inst) == inst.version.on /\ inst.version.save = NoTag

\* _load, line 139: the path that is opened.
LoadPathUnversioned(inst) == [ok |-> TRUE, key |-> UnversionedPath(inst.filepath)]

LoadPath(inst) == GetLoadPath(inst)

\* _save, line 145: the path that is written.
SavePathUnversioned(inst) == UnversionedPath(inst.filepath)

SavePath(inst) == GetSavePath(inst)

\* _exists, lines 155-156: isfile of the load path; version resolution may raise.
ExistsInnerSavePath(inst) ==
    [raised |-> FALSE, value |-> IsFile(files, GetSavePath(inst)),
     key |-> GetSavePath(inst)]

ExistsInner(inst) ==
    LET lp == GetLoadPath(inst)
    IN  IF lp.ok
        THEN [raised |-> FALSE, value |-> IsFile(files, lp.key), key |-> lp.key]
        ELSE [raised |-> TRUE, value |-> FALSE, key |-> NoKey]

\* exists(): "no version present" is downgraded to false.
ExistsFacade(inst) ==
    LET r == ExistsInner(inst)
    IN  IF r.raised THEN [r EXCEPT !.raised = FALSE, !.value = FALSE] ELSE r

\* _describe
DescribeWithCredentials(inst) ==
    [filepath |-> inst.filepath, load_args |-> inst.load_args,
     save_args |-> inst.save_args, version |-> inst.version,
     credentials |-> DeepValue(heap, inst.credentials)]

Describe(inst) ==
    [filepath |-> inst.filepath, load_args |-> inst.load_args,
     save_args |-> inst.save_args, version |-> inst.version]

(***************************************************************************)
(* Operations.                                                             *)
(***************************************************************************)
\* __init__
Construct(i, filepath, bucket_name, credentials, load_args, save_args, version) ==
    /\ ~insts[i].built
    /\ LET copy == CopyCredentials(heap, credentials)
       IN  /\ heap' = copy.heap
           /\ insts' = [insts EXCEPT ![i] =
                  [built |-> TRUE,
                   filepath |-> ResolvePath(filepath, bucket_name),
                   version |-> version,
                   load_args |-> MergeArgs({}, load_args),
                   save_args |-> MergeArgs({}, save_args),
                   credentials |-> copy.ref,
                   counter |-> 0,
                   args |-> [filepath |-> filepath, bucket_name |-> bucket_name,
                             credentials |-> credentials, load_args |-> load_args,
                             save_args |-> save_args, version |-> version],
                   given |-> DeepValue(heap, credentials)]]
    /\ last' = [Idle EXCEPT !.op = "init", !.inst = i]
    /\ UNCHANGED <<files, dirs, clock, minted, saved>>

\* The versions minted so far, by every handle.
MintedSoFar == Len(minted["A"]) + Len(minted["B"])

\* load() -> _load
Load(i) ==
    /\ insts[i].built
    /\ LET inst == insts[i]
           lp == LoadPath(inst)
       IN  last' =
             IF ~lp.ok
             THEN [op |-> "load", inst |-> i, key |-> NoKey, ok |-> FALSE,
                   val |-> 0, flag |-> FALSE]
             ELSE IF ~IsFile(files, lp.key)
             THEN [op |-> "load", inst |-> i, key |-> lp.key, ok |-> FALSE,
                   val |-> 0, flag |-> FALSE]
             ELSE [op |-> "load", inst |-> i, key |-> lp.key, ok |-> TRUE,
                   val |-> Decode(files[lp.key], inst.load_args), flag |-> FALSE]
    /\ UNCHANGED <<insts, files, dirs, clock, heap, minted, saved>>

\* save(data) -> _save
Save(i, data) ==
    /\ insts[i].built
    /\ Mints(insts[i]) => MintedSoFar < MaxSaves
    /\ LET inst == insts[i]
           key == SavePath(inst)
       IN  /\ files' = Put(files, key, Encode(data, inst.save_args))
           /\ insts' = [insts EXCEPT ![i].counter =
                            IF Mints(inst) THEN @ + 1 ELSE @]
           /\ minted' = [minted EXCEPT ![i] =
                            IF Mints(inst) THEN Append(@, key.ver) ELSE @]
           /\ saved' = [inst |-> i, key |-> key, data |-> data]
           /\ last' = [op |-> "save", inst |-> i, key |-> key, ok |-> TRUE,
                       val |-> data, flag |-> FALSE]
    /\ UNCHANGED <<dirs, clock, heap>>

\* exists() -> _exists
Exists(i) ==
    /\ insts[i].built
    /\ LET r == ExistsFacade(insts[i])
       IN  last' = [op |-> "exists", inst |-> i, key |-> r.key, ok |-> ~r.raised,
                    val |-> 0, flag |-> r.value]
    /\ UNCHANGED <<insts, files, dirs, clock, heap, minted, saved>>

\* The clock that save versions are minted from moves on.
Tick ==
    /\ clock < MaxClock
    /\ clock' = clock + 1
    /\ last' = Idle
    /\ UNCHANGED <<insts, files, dirs, heap, minted, saved>>

\* The caller changes its own credentials mapping: a top-level value (object
\* CallerRef) or a value of the nested mapping.
MutateCredentials(a, v) ==
    /\ \E k \in 1..Len(Chain(heap, CallerRef)) : a = Chain(heap, CallerRef)[k]
    /\ heap[a].val # v
    /\ heap' = [heap EXCEPT ![a].val = v]
    /\ last' = Idle
    /\ UNCHANGED <<insts, files, dirs, clock, minted, saved>>

(***************************************************************************)
(* Specifications.                                                         *)
(***************************************************************************)
\* The location that earlier writers used.
LegacyLoc == PurePosixPath(<<"b", "/", "a">>)

LegacyKey == GetVersionedPath(LegacyLoc, LegacyTag)

InitCommon ==
    /\ insts = [i \in Insts |-> Unbuilt]
    /\ clock = 1
    /\ heap = <<[val |-> 0, child |-> 2], [val |-> 0, child |-> 0]>>
    /\ minted = [i \in Insts |-> <<>>]
    /\ saved = NoSave
    /\ last = Idle

\* The store may hold a version left by an earlier writer: a file or the
\* directory of a multipart parquet.
Init ==
    /\ InitCommon
    /\ \/ files = EmptyStore /\ dirs = {}
       \/ files = Put(EmptyStore, LegacyKey, LegacyBytes) /\ dirs = {}
       \/ files = EmptyStore /\ dirs = {LegacyKey}

MainPaths ==
    {[filepath |-> <<"a">>, bucket_name |-> <<"b">>],
     [filepath |-> <<"a">>, bucket_name |-> <<>>]}

Next ==
    \/ \E i \in Insts, p \in MainPaths, v \in Versions :
           Construct(i, p.filepath, p.bucket_name, 0, NoArgs, NoArgs, v)
    \/ \E i \in Insts : Load(i)
    \/ \E i \in Insts, d \in Data : Save(i, d)
    \/ \E i \in Insts : Exists(i)
    \/ Tick

Spec == Init /\ [][Next]_vars

\* Construction over every filepath of bounded length, then the operations on
\* the one handle built.
InitPath == InitCommon /\ files = EmptyStore /\ dirs = {}

NextPath ==
    \/ /\ ~insts["A"].built
       /\ \E pre \in {<<>>, SchemeSep}, w \in SeqsUpTo(Alphabet, MaxLen),
             b \in Buckets, v \in {NoVersion, Version(NoTag, NoTag)} :
              Construct("A", pre \o w, b, 0, NoArgs, NoArgs, v)
    \/ Load("A")
    \/ Save("A", 1)
    \/ Exists("A")

SpecPath == InitPath /\ [][NextPath]_vars

\* Construction with and without the caller's credentials mapping, the caller
\* changing that mapping at any time, and the operations on the handles built.
InitCred == InitCommon /\ files = EmptyStore /\ dirs = {}

ArgChoices == {NoArgs, Args({<<"compression", "GZIP">>})}

NextCred ==
    \/ \E i \in Insts, c \in {0, CallerRef}, la \in {NoArgs}, sa \in ArgChoices :
           Construct(i, <<"a">>, <<"b">>, c, la, sa, NoVersion)
    \/ \E a \in 1..Len(heap), v \in CredValues : MutateCredentials(a, v)
    \/ \E i \in Insts : Load(i)
    \/ \E i \in Insts, d \in Data : Save(i, d)
    \/ \E i \in Insts : Exists(i)

SpecCred == InitCred /\ [][NextCred]_vars

(***************************************************************************)
(* Properties.                                                             *)
(***************************************************************************)
Versioned(i) == insts[i].built /\ insts[i].version.on

PresentAt(i) == VersionsPresent(files, dirs, insts[i].filepath)

\* tag is the greatest of the tags in S.
Greatest(tag, S) == tag \in S /\ \A x \in S : x = tag \/ TagLess(x, tag)

\* No store change has happened since handle i's last save.
JustSaved(i) == saved.inst = i

\* C1: a load with no pinned load version opens the object of the greatest
\* version tag present under the handle's location, and returns its content
\* when it is a file.
LoadSelectsLatest ==
    (/\ last.op = "load"
     /\ Versioned(last.inst)
     /\ insts[last.inst].version.load = NoTag
     /\ PresentAt(last.inst) # {})
    => /\ last.key.loc = insts[last.inst].filepath
       /\ Greatest(last.key.ver, PresentAt(last.inst))
       /\ IsFile(files, last.key)
            => last.ok /\ last.val = files[last.key].payload

LoadSelectsLatestWitness ==
    /\ last.op = "load"
    /\ Versioned(last.inst)
    /\ insts[last.inst].version.load = NoTag
    /\ Cardinality(PresentAt(last.inst)) >= 3
    /\ last.ok
    /\ Len(minted[last.inst]) >= 1

LooksAtSaved(i) ==
    \/ ~insts[i].version.on
    \/ insts[i].version.load = saved.key.ver
    \/ /\ insts[i].version.load = NoTag
       /\ Greatest(saved.key.ver, PresentAt(i))

NothingPresent(i) ==
    IF insts[i].version.on THEN PresentAt(i) = {}
    ELSE ~StoreExists(files, dirs, UnversionedPath(insts[i].filepath))

\* C3 as stated: exists() never raises, is false when nothing is present, and
\* is true right after the handle's own save, for every construction.
ExistsAfterSaveAlways ==
    last.op = "exists" =>
        /\ last.ok
        /\ NothingPresent(last.inst) => ~last.flag
        /\ JustSaved(last.inst) => last.flag

\* C3 amended: ... and is true right after the handle's own save when the load
\* path is the key saved: an unversioned handle, a load version pinned to the tag
\* saved, or no pinned load version and the tag saved the greatest present.
ExistsAfterSave ==
    last.op = "exists" =>
        /\ last.ok
        /\ NothingPresent(last.inst) => ~last.flag
        /\ (JustSaved(last.inst) /\ LooksAtSaved(last.inst)) => last.flag

ExistsAfterSaveWitness ==
    /\ last.op = "exists"
    /\ JustSaved(last.inst)
    /\ Versioned(last.inst)
    /\ insts[last.inst].version.load = NoTag
    /\ Cardinality(PresentAt(last.inst)) >= 2
    /\ last.flag

\* Handle j loads right after handle i saved under the same location with the
\* same pinned save version.
PinnedPair(i, j) ==
    /\ JustSaved(i)
    /\ i # j
    /\ last.op = "load" /\ last.inst = j
    /\ insts[i].filepath = insts[j].filepath
    /\ Versioned(i) /\ Versioned(j)
    /\ insts[i].version.save # NoTag
    /\ insts[i].version.save = insts[j].version.save

\* C4 as stated: the second handle's load returns the batch the first saved,
\* whatever else the store holds.
PinnedRoundTripAlways ==
    \A i, j \in Insts :
        PinnedPair(i, j) => last.ok /\ last.val = saved.data

\* C4 amended: ... provided the second handle's load version is pinned to that
\* same version, or is not pinned and no greater version is present.
PinnedRoundTrip ==
    \A i, j \in Insts :
        (/\ PinnedPair(i, j)
         /\ \/ insts[j].version.load = insts[i].version.save
            \/ /\ insts[j].version.load = NoTag
               /\ Greatest(saved.key.ver, PresentAt(j)))
        => last.ok /\ last.val = saved.data

PinnedRoundTripWitness ==
    \E i, j \in Insts :
        /\ PinnedPair(i, j)
        /\ insts[j].version.load = insts[i].version.save
        /\ Cardinality(PresentAt(j)) >= 2
        /\ last.ok /\ last.val = saved.data

\* C5: on one handle, a load right after a save returns the batch saved, read
\* from the key saved: for an unversioned handle, and for a handle with no pinned
\* versions when every other version present is older than the one saved.
SameInstanceRoundTrip ==
    (/\ last.op = "load"
     /\ JustSaved(last.inst)
     /\ \/ ~insts[last.inst].version.on
        \/ /\ insts[last.inst].version = Version(NoTag, NoTag)
           /\ Greatest(saved.key.ver, PresentAt(last.inst)))
    => last.ok /\ last.val = saved.data /\ last.key = saved.key

SameInstanceRoundTripWitness ==
    /\ last.op = "load"
    /\ JustSaved(last.inst)
    /\ insts[last.inst].version = Version(NoTag, NoTag)
    /\ Cardinality(PresentAt(last.inst)) >= 2
    /\ last.ok /\ last.val = saved.data

\* What a save step leaves alone: every object but the one at the save key, and
\* every directory.
SaveFrame ==
    /\ DOMAIN files' = DOMAIN files \cup {last'.key}
    /\ \A k \in DOMAIN files : k # last'.key => files'[k] = files[k]
    /\ dirs' = dirs

\* C8 as stated: a save writes one object and leaves the others alone, and every
\* version written before keeps its content.
SaveKeepsEveryVersion ==
    [][last'.op = "save" =>
          /\ SaveFrame
          /\ \A k \in DOMAIN files : k.ver # NoTag => files'[k] = files[k]]_vars

\* C8 amended: a save writes one object, the one at its save key, and leaves
\* the others alone: every version written before under another key keeps its
\* content.
SaveWritesOneObject ==
    [][last'.op = "save" =>
          /\ SaveFrame
          /\ files'[last'.key] =
                 Encode(last'.val, insts[last'.inst].save_args)]_vars

SaveWritesOneObjectWitness ==
    /\ last.op = "save"
    /\ Cardinality(DOMAIN files) >= 3
    /\ \E k \in DOMAIN files : k.loc # last.key.loc

\* The positions where a run of name tokens starts, and where that run ends.
RunStarts(s) == {i \in 1..Len(s) : s[i] # "/" /\ (i = 1 \/ s[i - 1] = "/")}

RunEnd(s, i) ==
    CHOOSE j \in i..Len(s) :
        /\ \A k \in i..j : s[k] # "/"
        /\ j = Len(s) \/ s[j + 1] = "/"

RECURSIVE RunsFrom(_, _)
\* The runs of name tokens of s that start in the set of positions P, in order,
\* without the runs that are a lone ".".
RunsFrom(s, P) ==
    IF P = {} THEN <<>>
    ELSE LET i == CHOOSE x \in P : \A y \in P : x <= y
             run == SubSeq(s, i, RunEnd(s, i))
         IN  (IF run = <<".">> THEN <<>> ELSE <<run>>) \o RunsFrom(s, P \ {i})

Names(s) == RunsFrom(s, RunStarts(s))

\* The location the constructor arguments stand for: the bucket name, if one is
\* given, then the names of the protocol-stripped filepath.
ExpectedSegs(a) ==
    (IF a.bucket_name # <<>> THEN <<a.bucket_name>> ELSE <<>>)
        \o Names(StripProtocol(a.filepath))

\* Two separators in a row somewhere in s.
DoubleSep(s) == \E k \in 1..(Len(s) - 1) : s[k] = "/" /\ s[k + 1] = "/"

ResolvedAsJoined(i) ==
    /\ insts[i].filepath.segs = ExpectedSegs(insts[i].args)
    /\ insts[i].args.bucket_name # <<>> => insts[i].filepath.root = 0
    /\ \A k \in 1..Len(insts[i].filepath.segs) :
           /\ insts[i].filepath.segs[k] # <<>>
           /\ insts[i].filepath.segs[k] # <<".">>
           /\ \A n \in 1..Len(insts[i].filepath.segs[k]) :
                  insts[i].filepath.segs[k][n] # "/"

KeysUnderLocation ==
    (last.op \in {"load", "save", "exists"} /\ last.key # NoKey)
        => last.key.loc = insts[last.inst].filepath

\* C6 as stated: the resolved location is the bucket name joined with the
\* protocol-stripped filepath (the stripped filepath alone without a bucket
\* name), it has no scheme prefix and no redundant separator, and every key used
\* by load, save and exists lies under it.
PathResolvedNormalized ==
    /\ \A i \in Insts : insts[i].built =>
           /\ ResolvedAsJoined(i)
           /\ ~StartsWith(PathStr(insts[i].filepath), Scheme)
           /\ ~DoubleSep(PathStr(insts[i].filepath))
    /\ KeysUnderLocation

\* C6 amended: ... with the leading scheme prefix removed it has no empty or
\* "." segment and no trailing separator; without a bucket name, a stripped
\* filepath that starts with exactly two separators keeps both.
PathResolved ==
    /\ \A i \in Insts : insts[i].built =>
           /\ ResolvedAsJoined(i)
           /\ DoubleSep(PathStr(insts[i].filepath)) =>
                  /\ insts[i].filepath.root = 2
                  /\ insts[i].args.bucket_name = <<>>
                  /\ ~DoubleSep(Tail(PathStr(insts[i].filepath)))
           /\ ~StartsWith(PathStr(insts[i].filepath), Scheme)
    /\ KeysUnderLocation

PathResolvedWitness ==
    /\ insts["A"].built
    /\ insts["A"].args.bucket_name = <<"b">>
    /\ StartsWith(insts["A"].args.filepath, SchemeSep)
    /\ DoubleSep(StripProtocol(insts["A"].args.filepath))
    /\ Len(insts["A"].filepath.segs) = 3
    /\ last.op = "save"

\* The bucket a filepath with a scheme prefix names.
EmbeddedBucket(filepath) ==
    IF StartsWith(filepath, SchemeSep) /\ Names(Drop(filepath, 3)) # <<>>
    THEN Names(Drop(filepath, 3))[1]
    ELSE <<>>

\* C7: no handle exists whose bucket_name differs from the bucket its filepath
\* names: such a construction is rejected.
AmbiguousRejected ==
    \A i \in Insts : insts[i].built =>
        ~(/\ insts[i].args.bucket_name # <<>>
          /\ EmbeddedBucket(insts[i].args.filepath) # <<>>
          /\ EmbeddedBucket(insts[i].args.filepath) # insts[i].args.bucket_name)

\* C9: the credentials a handle holds are those its constructor was given, as
\* they were then, whatever the caller has done to its mapping since; none given
\* is the empty mapping.
CredentialsOpaque ==
    \A i \in Insts : insts[i].built =>
        /\ DeepValue(heap, insts[i].credentials) = insts[i].given
        /\ insts[i].args.credentials = 0 =>
               DeepValue(heap, insts[i].credentials) = <<>>

CredentialsOpaqueWitness ==
    \E i \in Insts :
        /\ insts[i].built
        /\ insts[i].args.credentials = CallerRef
        /\ DeepValue(heap, CallerRef)[1] # insts[i].given[1]
        /\ DeepValue(heap, CallerRef)[2] # insts[i].given[2]
        /\ last.op \in {"load", "save", "exists"} /\ last.inst = i

SameButCredentials(i, j) ==
    /\ insts[i].built /\ insts[j].built
    /\ [insts[i].args EXCEPT !.credentials = 0]
           = [insts[j].args EXCEPT !.credentials = 0]

\* C10: describe() holds the filepath, the load and save options and the
\* version, and two handles built from the same arguments but for the
\* credentials describe themselves alike.
DescribeHidesCredentials ==
    /\ \A i \in Insts : insts[i].built =>
           /\ DOMAIN Describe(insts[i])
                  = {"filepath", "load_args", "save_args", "version"}
           /\ Describe(insts[i]).filepath.segs = ExpectedSegs(insts[i].args)
           /\ Describe(insts[i]).version = insts[i].args.version
           /\ Describe(insts[i]).save_args = insts[i].args.save_args.opts
           /\ Describe(insts[i]).load_args = insts[i].args.load_args.opts
    /\ \A i, j \in Insts :
           SameButCredentials(i, j) => Describe(insts[i]) = Describe(insts[j])

DescribeHidesCredentialsWitness ==
    /\ SameButCredentials("A", "B")
    /\ DeepValue(heap, insts["A"].credentials)
           # DeepValue(heap, insts["B"].credentials)
    /\ insts["A"].args.save_args.given
    /\ last.op \in {"load", "save", "exists"}
====
